---- MODULE Spec2Model ----
(***************************************************************************)
(* State-machine model of the treetsage maps gateway (src/server.js, its   *)
(* earlier revision src/unnamed/part_000) and of the standalone places API *)
(* (src/index.js).                                                         *)
(*                                                                         *)
(* JavaScript values are tagged records (JsUndefined, JsNull, JsStr ...),  *)
(* so that the code's truthiness tests (!query, location ? .. : .., a||b)  *)
(* are computed as JavaScript computes them.  Text a caller supplies is a  *)
(* sequence of one-character strings, so that the coordinate pattern of    *)
(* geocode() is matched character by character.                            *)
(***************************************************************************)
EXTENDS Integers, Sequences, FiniteSets, Bags, TLC

VARIABLES
    now,             \* Date.now(), milliseconds
    rateLimitStore,  \* the Map clientIP -> array of request timestamps
    served,          \* number of requests the servers have answered so far
    last,            \* the most recent request with its response and the calls it made
    run,             \* observer of the limiter: the current window of checks
    process,         \* the gateway process: its environment, phase and exit code
    pending,         \* the bag of requests in flight, each suspended at an await
    admitted         \* observer of the limiter: per client, the timestamps allowed

vars == <<now, rateLimitStore, served, last, run, process, pending, admitted>>

----------------------------------------------------------------------------
(* Bounds of the model *)

\* requests answered in one behaviour of Spec
MaxServed == 2
\* requests in flight at once, and requests arriving in one behaviour, of
\* SpecConcurrent
MaxInFlight == 2
MaxArrivals == 3
\* records the upstream provider returns for one search
MaxResults == 11
\* checks explored past the limit inside one window (SpecLimiter)
MaxOver == 2

----------------------------------------------------------------------------
(* JavaScript values *)

JsUndefined == [t |-> "undefined"]
JsNull == [t |-> "null"]
JsStr(s) == [t |-> "string", v |-> s]
JsNum(n) == [t |-> "number", v |-> n]
JsObj(o) == [t |-> "object", v |-> o]
JsArr(a) == [t |-> "array", v |-> a]

\* ToBoolean: undefined, null, "" and 0 are falsy; objects and arrays are truthy
TruthyEmptyText(x) == x.t \notin {"undefined", "null"} /\ (x.t = "number" => x.v # 0)
Truthy(x) ==
    CASE x.t = "undefined" -> FALSE
      [] x.t = "null" -> FALSE
      [] x.t = "string" -> Len(x.v) > 0
      [] x.t = "number" -> x.v # 0
      [] OTHER -> TRUE

\* a || b
JsOr(a, b) == IF Truthy(a) THEN a ELSE b

\* property read o.k of a value that is not null or undefined
JsGet(o, k) ==
    IF o.t = "object" /\ k \in DOMAIN o.v THEN o.v[k] ELSE JsUndefined

\* const { k = dflt } = o  (the default applies to undefined only)
JsGetDefault(o, k, dflt) ==
    IF JsGet(o, k) = JsUndefined THEN dflt ELSE JsGet(o, k)

----------------------------------------------------------------------------
(* Text *)

Range(s) == {s[i] : i \in DOMAIN s}

Digits == {"0", "1", "2", "3", "4", "5", "6", "7", "8", "9"}

DigitChar(d) ==
    CASE d = 0 -> "0" [] d = 1 -> "1" [] d = 2 -> "2" [] d = 3 -> "3"
      [] d = 4 -> "4" [] d = 5 -> "5" [] d = 6 -> "6" [] d = 7 -> "7"
      [] d = 8 -> "8" [] d = 9 -> "9"

RECURSIVE NatToChars(_)
NatToChars(n) ==
    IF n < 10 THEN <<DigitChar(n)>>
    ELSE NatToChars(n \div 10) \o <<DigitChar(n % 10)>>

\* `${n}` of an integer
NumToChars(n) == IF n < 0 THEN <<"-">> \o NatToChars(-n) ELSE NatToChars(n)

\* /^-?\d+\.?\d*$/ : an optional sign, digits, an optional point, digits
IsNumberText(s) ==
    LET body == IF Len(s) > 0 /\ s[1] = "-" THEN Tail(s) ELSE s
    IN  /\ Len(body) > 0
        /\ body[1] \in Digits
        /\ \A i \in 1..Len(body) : body[i] \in Digits \cup {"."}
        /\ Cardinality({i \in 1..Len(body) : body[i] = "."}) <= 1

\* /^-?\d+\.?\d*,-?\d+\.?\d*$/.test(s)
CoordinatePattern(s) ==
    \E i \in 1..Len(s) :
        /\ s[i] = ","
        /\ IsNumberText(SubSeq(s, 1, i - 1))
        /\ IsNumberText(SubSeq(s, i + 1, Len(s)))

\* encodeURIComponent over the characters the model's texts use
EncodeChar(c) ==
    CASE c = " " -> <<"%", "2", "0">>
      [] c = "," -> <<"%", "2", "C">>
      [] c = "/" -> <<"%", "2", "F">>
      [] c = "&" -> <<"%", "2", "6">>
      [] OTHER -> <<c>>

RECURSIVE encodeURIComponent(_)
encodeURIComponent(s) ==
    IF s = <<>> THEN <<>>
    ELSE EncodeChar(Head(s)) \o encodeURIComponent(Tail(s))

\* JSON.parse(JSON.stringify(v)): properties whose value is undefined are
\* dropped, undefined array elements become null
RECURSIVE JsonRoundTrip(_)
JsonRoundTrip(x) ==
    CASE x.t = "object" ->
            JsObj([k \in {j \in DOMAIN x.v : x.v[j] # JsUndefined} |->
                      JsonRoundTrip(x.v[k])])
      [] x.t = "array" ->
            JsArr([i \in 1..Len(x.v) |->
                      IF x.v[i] = JsUndefined THEN JsNull
                      ELSE JsonRoundTrip(x.v[i])])
      [] OTHER -> x

----------------------------------------------------------------------------
(* Rate limiter: customRateLimiter *)

windowMs == 60 * 60 * 1000
maxRequests == 100

\* rateLimitStore.get(clientIP) || []
StoreGet(store, clientIP) ==
    IF clientIP \in DOMAIN store THEN store[clientIP] ELSE <<>>

\* a Map that forgets its other keys when one is set
StoreSetAlone(store, clientIP, requests) == [k \in {clientIP} |-> requests]

\* rateLimitStore.set(clientIP, requests)
StoreSet(store, clientIP, requests) ==
    [k \in DOMAIN store \cup {clientIP} |->
        IF k = clientIP THEN requests ELSE store[k]]

\* c.req.header("x-forwarded-for") || "unknown"
ClientIP(headers) ==
    IF headers.xff # "" THEN headers.xff ELSE "unknown"

\* the ledger kept whole, nothing filtered out
ValidRequestsNoPrune(clientRequests, t) == clientRequests

\* clientRequests.filter((time) => now - time < windowMs)
ValidRequests(clientRequests, t) ==
    SelectSeq(clientRequests, LAMBDA time : t - time < windowMs)

\* validRequests.length >= maxRequests
OverLimitNever(validRequests) == FALSE
OverLimitOffByOne(validRequests) == Len(validRequests) > maxRequests
OverLimit(validRequests) == Len(validRequests) >= maxRequests

\* a limiter that lets a request pass and keeps no record of it
customRateLimiterNotRecording(store, clientIP, t) ==
    [allowed |-> ~OverLimit(ValidRequests(StoreGet(store, clientIP), t)),
     store |-> store]

\* a limiter that writes the time of a denied request into the ledger too
customRateLimiterRecordingDenied(store, clientIP, t) ==
    [allowed |-> ~OverLimit(ValidRequests(StoreGet(store, clientIP), t)),
     store |-> StoreSet(store, clientIP,
                        Append(ValidRequests(StoreGet(store, clientIP), t), t))]

\* The middleware up to `await next()`: the decision and the store it leaves.
customRateLimiter(store, clientIP, t) ==
    LET clientRequests == StoreGet(store, clientIP)
        validRequests == ValidRequests(clientRequests, t)
    IN  IF OverLimit(validRequests)
        THEN [allowed |-> FALSE, store |-> store]
        ELSE [allowed |-> TRUE,
              store |-> StoreSet(store, clientIP, Append(validRequests, t))]

\* The x-forwarded-for values callers send ("" is a request without the header)
ForwardedFor == {"", "203.0.113.7"}
Clients == {ClientIP([xff |-> x]) : x \in ForwardedFor}

----------------------------------------------------------------------------
(* Upstream client: callGoogleMapsAPI, geocodeLocation, searchPlaces,      *)
(* getDirections.  An upstream response is what fetch() gives back for one *)
(* call: the transport outcome, response.ok and the parsed body.           *)

\* a call the request never makes
NoResponse == [transport |-> "none"]
NoEnv == [geocode |-> NoResponse, places |-> NoResponse, directions |-> NoResponse,
          details |-> NoResponse]

Call(api, params) == [e |-> api, params |-> params]

\* One call, one fetch: the code holds no loop and no second attempt.  The
\* result carries the requests sent (calls) beside what the code returns or
\* throws.
callGoogleMapsAPIRetrying(endpoint, params, response) ==
    LET fetch == <<Call(endpoint, params)>>
    IN  IF response.transport # "ok" \/ ~response.ok
        THEN [threw |-> TRUE, message |-> "fetch failed", calls |-> fetch \o fetch]
        ELSE IF /\ JsGet(response.data, "status") # JsStr("OK")
                /\ JsGet(response.data, "status") # JsStr("ZERO_RESULTS")
        THEN [threw |-> TRUE, message |-> "Google Maps API status", calls |-> fetch]
        ELSE [threw |-> FALSE, value |-> response.data, calls |-> fetch]
callGoogleMapsAPI(endpoint, params, response) ==
    LET fetch == <<Call(endpoint, params)>>
    IN  IF response.transport # "ok"
        THEN [threw |-> TRUE, message |-> "fetch failed", calls |-> fetch]
        ELSE IF ~response.ok
        THEN [threw |-> TRUE, message |-> "Google Maps API error", calls |-> fetch]
        ELSE IF /\ JsGet(response.data, "status") # JsStr("OK")
                /\ JsGet(response.data, "status") # JsStr("ZERO_RESULTS")
        THEN [threw |-> TRUE, message |-> "Google Maps API status", calls |-> fetch]
        ELSE [threw |-> FALSE, value |-> response.data, calls |-> fetch]

\* data.results && data.results.length > 0 ? data.results[0].geometry.location : null
FirstLocation(data) ==
    LET results == JsGet(data, "results")
    IN  IF Truthy(results) /\ results.t = "array" /\ Len(results.v) > 0
        THEN IF JsGet(results.v[1], "geometry").t = "object"
             THEN JsGet(JsGet(results.v[1], "geometry"), "location")
             ELSE JsNull
        ELSE JsNull

\* geocodeLocation answering a point where the code answers null
geocodeLocationNeverNull(address, response) ==
    LET r == callGoogleMapsAPI("geocode/json", [address |-> address], response)
        found == IF r.threw THEN JsNull ELSE FirstLocation(r.value)
    IN  [calls |-> r.calls,
         value |-> IF Truthy(found) THEN found
                   ELSE JsObj([lat |-> JsNum(0), lng |-> JsNum(0)])]

\* geocodeLocation(address): every error is caught and answered with null
geocodeLocation(address, response) ==
    LET r == callGoogleMapsAPI("geocode/json", [address |-> address], response)
    IN  [calls |-> r.calls,
         value |-> IF r.threw THEN JsNull ELSE FirstLocation(r.value)]

\* `${x}` of a number or a text
TemplateText(x) ==
    CASE x.t = "number" -> NumToChars(x.v)
      [] x.t = "string" -> x.v
      [] OTHER -> <<x.t>>

\* The one places call of searchPlaces: nearby search around the geocoded
\* point, text search on the query alone when there is none.
PlacesCall(query, locationBias, radius, placeType, response) ==
    IF Truthy(locationBias)
    THEN callGoogleMapsAPI("place/nearbysearch/json",
            [location |-> TemplateText(JsGet(locationBias, "lat")) \o <<",">>
                            \o TemplateText(JsGet(locationBias, "lng")),
             radius |-> radius,
             keyword |-> query,
             type |-> IF Truthy(placeType) THEN placeType ELSE JsUndefined],
            response)
    ELSE callGoogleMapsAPI("place/textsearch/json", [query |-> query], response)

\* return data.results || []
SearchResults(calls, r) ==
    IF r.threw
    THEN [threw |-> TRUE, message |-> r.message, calls |-> calls \o r.calls]
    ELSE [threw |-> FALSE, calls |-> calls \o r.calls,
          value |-> JsOr(JsGet(r.value, "results"), JsArr(<<>>))]

searchPlaces(query, location, radius, placeType, env) ==
    LET geo == IF Truthy(location)
               THEN geocodeLocation(location, env.geocode)
               ELSE [calls |-> <<>>, value |-> JsNull]
    IN  SearchResults(geo.calls,
                      PlacesCall(query, geo.value, radius, placeType, env.places))

getDirections(origin, destination, mode, env) ==
    LET r == callGoogleMapsAPI("directions/json",
                [origin |-> origin, destination |-> destination,
                 mode |-> mode, departure_time |-> "now"],
                env.directions)
    IN  IF r.threw
        THEN [threw |-> TRUE, message |-> r.message, calls |-> r.calls]
        ELSE [threw |-> FALSE, calls |-> r.calls,
              value |-> JsOr(JsGet(r.value, "routes"), JsArr(<<>>))]

----------------------------------------------------------------------------
(* Result normaliser of POST /search-places *)

Min(a, b) == IF a < b THEN a ELSE b

\* a slice that cuts nothing off
SliceWhole(s, k) == s

\* places.slice(0, k)
Slice(s, k) == SubSeq(s, 1, Min(k, Len(s)))

DefaultLocation == JsObj([lat |-> JsNum(0), lng |-> JsNum(0)])

\* one element of processedPlaces
NormalizePlace(place) ==
    [name |-> JsOr(JsGet(place, "name"), JsStr(<<>>)),
     address |-> JsOr(JsGet(place, "vicinity"),
                      JsOr(JsGet(place, "formatted_address"), JsStr(<<>>))),
     rating |-> JsOr(JsGet(place, "rating"), JsNull),
     price_level |-> JsOr(JsGet(place, "price_level"), JsNull),
     place_id |-> JsOr(JsGet(place, "place_id"), JsStr(<<>>)),
     location |-> JsOr(JsGet(JsGet(place, "geometry"), "location"), DefaultLocation),
     types |-> JsOr(JsGet(place, "types"), JsArr(<<>>))]

\* places.slice(0, 10).map(...)
ProcessedPlaces(places) ==
    LET top == Slice(places, 10)
    IN  [i \in 1..Len(top) |-> NormalizePlace(top[i])]

RECURSIVE SumCoordinate(_, _)
\* processedPlaces.reduce((sum, place) => sum + place.location[axis], 0)
SumCoordinate(processed, axis) ==
    IF processed = <<>> THEN 0
    ELSE JsGet(Head(processed).location, axis).v + SumCoordinate(Tail(processed), axis)

\* a / b, kept exact as the pair of its operands
Quotient(a, b) == [num |-> a, den |-> b]
\* q is the number a / b
QuotientIs(q, a, b) == q.den # 0 /\ b # 0 /\ q.num * b = a * q.den

\* generateEmbedHtml(places): one descriptor for each of the first five
generateEmbedHtml(places) ==
    IF Len(places) = 0 THEN <<>>
    ELSE LET placesToShow == Slice(places, 5)
         IN  [i \in 1..Len(placesToShow) |->
                [place_id |-> placesToShow[i].place_id,
                 name |-> placesToShow[i].name,
                 embed_html |-> <<"place_id:">> \o placesToShow[i].place_id.v,
                 directions_url |->
                     <<"destination_place_id=">> \o placesToShow[i].place_id.v
                        \o <<"&destination=">>
                        \o encodeURIComponent(placesToShow[i].name.v)]]

\* generateMapUrl(places)
generateMapUrl(places) ==
    IF Len(places) = 0 THEN <<>>
    ELSE <<"https://www.google.com/maps/search/">>
            \o encodeURIComponent(places[1].name.v) \o <<"/@">>
            \o TemplateText(JsGet(places[1].location, "lat")) \o <<",">>
            \o TemplateText(JsGet(places[1].location, "lng")) \o <<",13z">>

----------------------------------------------------------------------------
(* Gateway routes (Hono app of server.js) *)

Json(status, body) == [status |-> status, kind |-> "json", by |-> "handler", body |-> body]
\* a response the hono library builds (bearerAuth's 401, the default 404)
Library(status, text) == [status |-> status, kind |-> "text", by |-> "hono", body |-> text]

Event(name) == [e |-> name]

\* a literal piece of a template string; the other pieces are the values put in
Lit(text) == [lit |-> text]

\* await c.req.json()
ReqJson(body) ==
    IF body.malformed THEN [threw |-> TRUE, message |-> "Unexpected token"]
    ELSE [threw |-> FALSE, value |-> body.json]

\* const { ... } = body throws a TypeError for null and undefined
CannotDestructure(b) == b.t \in {"null", "undefined"}

\* the catch block of a route
Caught(error, message, events) ==
    [resp |-> Json(500, [error |-> error, message |-> message]), events |-> events]

\* the 200 response of /search-places
SearchPlacesFound(places, processedPlaces, events) ==
    LET placeEmbeds == generateEmbedHtml(processedPlaces)
    IN  [resp |-> Json(200,
            [places |-> processedPlaces,
             place_embeds |-> placeEmbeds,
             map_url |-> generateMapUrl(processedPlaces),
             directions_url |->
                 IF Len(placeEmbeds) > 0 THEN placeEmbeds[1].directions_url
                 ELSE <<>>,
             center_lat |-> Quotient(SumCoordinate(processedPlaces, "lat"),
                                     Len(processedPlaces)),
             center_lng |-> Quotient(SumCoordinate(processedPlaces, "lng"),
                                     Len(processedPlaces)),
             total_results |-> Len(places)]),
         events |-> events \o <<Event("processedPlaces")>>]

\* /search-places from the answer of searchPlaces on
SearchPlacesSearchedNoEmptyCheck(query, location, read, found) ==
    IF found.threw
    THEN Caught("Search failed", found.message, read \o found.calls)
    ELSE SearchPlacesFound(found.value.v, ProcessedPlaces(found.value.v),
                           read \o found.calls)
SearchPlacesSearched(query, location, read, found) ==
    IF found.threw
    THEN Caught("Search failed", found.message, read \o found.calls)
    ELSE IF Len(found.value.v) = 0
    THEN [resp |-> Json(404,
              [error |-> "No places found",
               message |-> <<Lit("No results for "), query>>
                   \o (IF Truthy(location) THEN <<Lit(" in "), location>> ELSE <<>>)]),
          events |-> read \o found.calls]
    ELSE SearchPlacesFound(found.value.v, ProcessedPlaces(found.value.v),
                           read \o found.calls)

\* app.post("/search-places", ...) after the middleware
SearchPlacesHandler(body, env) ==
    LET parsed == ReqJson(body)
        b == parsed.value
        query == JsGet(b, "query")
        location == JsGet(b, "location")
        radius == JsGetDefault(b, "radius", JsNum(2000))
        type == JsGet(b, "type")
        read == <<Event("c.req.json")>>
    IN  IF parsed.threw THEN Caught("Search failed", parsed.message, read)
        ELSE IF CannotDestructure(b)
        THEN Caught("Search failed", "Cannot destructure", read)
        ELSE IF ~Truthy(query)
        THEN [resp |-> Json(400, [error |-> "Query parameter is required"]),
              events |-> read]
        ELSE SearchPlacesSearched(query, location, read,
                                  searchPlaces(query, location, radius, type, env))

\* `https://www.google.com/maps/dir/${encodeURIComponent(origin)}/${...}/`
directionsUrlSwapped(origin, destination) ==
    <<"https://www.google.com/maps/dir/">>
        \o encodeURIComponent(destination.v) \o <<"/">>
        \o encodeURIComponent(origin.v) \o <<"/">>
directionsUrl(origin, destination) ==
    <<"https://www.google.com/maps/dir/">>
        \o encodeURIComponent(origin.v) \o <<"/">>
        \o encodeURIComponent(destination.v) \o <<"/">>

\* /directions from the answer of getDirections on
DirectionsSearched(origin, destination, mode, read, found) ==
    LET routes == found.value.v
        route == routes[1]
        leg == JsGet(route, "legs").v[1]
    IN  IF found.threw
        THEN Caught("Directions failed", found.message, read \o found.calls)
        ELSE IF Len(routes) = 0
        THEN [resp |-> Json(404,
                  [error |-> "No directions found",
                   message |-> <<Lit("No route found from "), origin,
                                 Lit(" to "), destination>>]),
              events |-> read \o found.calls]
        ELSE [resp |-> Json(200,
                  [directions |-> route,
                   url |-> directionsUrl(origin, destination),
                   duration |-> JsGet(JsGet(leg, "duration"), "text"),
                   distance |-> JsGet(JsGet(leg, "distance"), "text"),
                   start_address |-> JsGet(leg, "start_address"),
                   end_address |-> JsGet(leg, "end_address"),
                   mode |-> mode]),
              events |-> read \o found.calls]

\* app.post("/directions", ...) after the middleware
DirectionsHandler(body, env) ==
    LET parsed == ReqJson(body)
        b == parsed.value
        origin == JsGet(b, "origin")
        destination == JsGet(b, "destination")
        mode == JsGetDefault(b, "mode", JsStr("driving"))
        read == <<Event("c.req.json")>>
    IN  IF parsed.threw THEN Caught("Directions failed", parsed.message, read)
        ELSE IF CannotDestructure(b)
        THEN Caught("Directions failed", "Cannot destructure", read)
        ELSE IF ~Truthy(origin) \/ ~Truthy(destination)
        THEN [resp |-> Json(400, [error |-> "Origin and destination are required"]),
              events |-> read]
        ELSE DirectionsSearched(origin, destination, mode, read,
                                getDirections(origin, destination, mode, env))

\* config.apiSecret
apiSecret == "s3cret"

\* bearerAuth({ token: config.apiSecret })
bearerAuth(headers) == headers.authorization = "Bearer " \o apiSecret

\* the handler registered for the path: both are app.post routes
RouteHandler(method, path, body, env) ==
    IF method # "POST"
    THEN [resp |-> Library(404, "404 Not Found"), events |-> <<>>]
    ELSE IF path = "/search-places" THEN SearchPlacesHandler(body, env)
    ELSE DirectionsHandler(body, env)

\* await next(): the response is the one of what runs next
AwaitNext(store, events, handled) ==
    [resp |-> handled.resp, store |-> store, events |-> events \o handled.events]

\* c.json({ error: "Rate limit exceeded", ... }, 429)
RateLimitExceeded ==
    Json(429, [error |-> "Rate limit exceeded",
               message |-> <<Lit("Max "), JsNum(maxRequests), Lit(" requests per hour")>>])

\* The chain hono runs for POST /search-places and POST /directions, in the
\* order of registration: bearerAuth, customRateLimiter, the route.
ProtectedRoute(req, store, t, env) ==
    LET limit == customRateLimiter(store, ClientIP(req.headers), t)
        authed == <<Event("bearerAuth")>>
        limited == authed \o <<Event("customRateLimiter")>>
    IN  IF ~bearerAuth(req.headers)
        THEN [resp |-> Library(401, "Unauthorized"), store |-> store, events |-> authed]
        ELSE IF ~limit.allowed
        THEN [resp |-> RateLimitExceeded, store |-> store, events |-> limited]
        ELSE AwaitNext(limit.store, limited,
                       RouteHandler(req.method, req.path, req.body, env))

\* the request app.post("/llm-function") hands to app.fetch: the caller's
\* headers and JSON.stringify(parameters) as the body
InternalRequestNoHeaders(req, endpoint, parameters) ==
    [method |-> "POST", path |-> endpoint,
     headers |-> [authorization |-> "", xff |-> req.headers.xff],
     body |-> [malformed |-> FALSE, json |-> JsonRoundTrip(parameters)]]
InternalRequest(req, endpoint, parameters) ==
    [method |-> "POST", path |-> endpoint, headers |-> req.headers,
     body |-> [malformed |-> FALSE, json |-> JsonRoundTrip(parameters)]]

\* return c.json(result, response.status) of the internal response
Relay(read, inner) ==
    [resp |-> inner.resp, store |-> inner.store,
     events |-> read \o <<Event("app.fetch")>> \o inner.events]

\* app.post("/llm-function", ...): no middleware is registered for this path
LlmFunctionHandler(req, store, t, env) ==
    LET parsed == ReqJson(req.body)
        b == parsed.value
        functionName == JsGet(b, "function_name")
        parameters == JsGetDefault(b, "parameters", JsObj(<<>>))
        endpoint == IF functionName = JsStr("search_places") THEN "/search-places"
                    ELSE "/directions"
        read == <<Event("c.req.json")>>
        failed(message) ==
            [resp |-> Json(500, [error |-> "Function call failed", message |-> message]),
             store |-> store, events |-> read]
    IN  IF parsed.threw THEN failed(parsed.message)
        ELSE IF CannotDestructure(b) THEN failed("Cannot destructure")
        ELSE IF functionName \notin {JsStr("search_places"), JsStr("get_directions")}
        THEN [resp |-> Json(400, [error |-> "Unknown function name"]),
              store |-> store, events |-> read]
        ELSE Relay(read, ProtectedRoute(InternalRequest(req, endpoint, parameters),
                                        store, t, env))

\* app.fetch(request)
App(req, store, t, env) ==
    IF req.method = "GET" /\ req.path = "/health"
    THEN [resp |-> Json(200, [status |-> "healthy", version |-> "1.0.0"]),
          store |-> store, events |-> <<>>]
    ELSE IF req.path \in {"/search-places", "/directions"}
    THEN ProtectedRoute(req, store, t, env)
    ELSE IF req.method = "POST" /\ req.path = "/llm-function"
    THEN LlmFunctionHandler(req, store, t, env)
    ELSE [resp |-> Library(404, "404 Not Found"), store |-> store, events |-> <<>>]

----------------------------------------------------------------------------
(* Startup of the gateway: the configuration checks of server.js *)

\* process.env as the gateway reads it; "" is a variable that is unset or
\* empty (both are falsy)
ProcessEnvs == [GOOGLE_MAPS_API_KEY : {"", "key"}, API_SECRET : {"", apiSecret}]

\* the checks pass: neither !config.googleMapsApiKey nor !config.apiSecret
ConfigHasKey(env) == env.GOOGLE_MAPS_API_KEY # ""
ConfigComplete(env) == env.GOOGLE_MAPS_API_KEY # "" /\ env.API_SECRET # ""

\* the process once the module has been evaluated with both variables set
Running ==
    [phase |-> "serving", exitCode |-> 0,
     env |-> [GOOGLE_MAPS_API_KEY |-> "key", API_SECRET |-> apiSecret]]

\* The module is evaluated: process.exit(1) at the first failed check, else
\* the app is exported and begins to serve.
Startup ==
    /\ process.phase = "starting"
    /\ process' = IF ConfigComplete(process.env)
                  THEN [process EXCEPT !.phase = "serving"]
                  ELSE [process EXCEPT !.phase = "exited", !.exitCode = 1]
    /\ UNCHANGED <<now, rateLimitStore, served, last, run, pending, admitted>>

----------------------------------------------------------------------------
(* Time *)

\* The instants the model lets Date.now() take: the start, the last
\* millisecond of the first window, the first one past it, and the last
\* millisecond of the window that starts at windowMs - 1.
Instants == {0, windowMs - 1, windowMs, 2 * windowMs - 1}

\* no request is being answered
NoRequest == [variant |-> "none"]

\* time passes between two requests
Tick ==
    /\ last = NoRequest
    /\ \E t \in Instants : t > now /\ now' = t
    /\ UNCHANGED <<rateLimitStore, served, last, run, process, pending, admitted>>

----------------------------------------------------------------------------
(* SpecLimiter: the limiter alone, from the empty Map, one client at a time *)

NoRun == [active |-> FALSE, client |-> "", start |-> 0, count |-> 0,
          lastCheck |-> 0, fresh |-> FALSE, allowed |-> FALSE]

\* The observer's record after a check of clientIP at time t with the given
\* outcome.  A window of checks starts fresh when no earlier check of the
\* client lies less than windowMs back; it lasts while t - start < windowMs.
RunAfter(r, clientIP, t, allowed) ==
    IF ~r.active \/ t - r.lastCheck >= windowMs
    THEN [active |-> TRUE, client |-> clientIP, start |-> t, count |-> 1,
          lastCheck |-> t, fresh |-> TRUE, allowed |-> allowed]
    ELSE IF t - r.start < windowMs
    THEN [r EXCEPT !.count = r.count + 1, !.lastCheck = t, !.allowed = allowed]
    ELSE [r EXCEPT !.start = t, !.count = 1, !.lastCheck = t,
                   !.fresh = FALSE, !.allowed = allowed]

InitLimiter ==
    /\ now = 0
    /\ rateLimitStore = <<>>
    /\ served = 0
    /\ last = NoRequest
    /\ run = NoRun
    /\ process = Running
    /\ pending = EmptyBag
    /\ admitted = <<>>

\* One pass of a request through customRateLimiter.
LimiterCheck(clientIP) ==
    LET r == customRateLimiter(rateLimitStore, clientIP, now)
    IN  /\ DOMAIN rateLimitStore \subseteq {clientIP}
        /\ run.active /\ now - run.start < windowMs
              => run.count < maxRequests + MaxOver
        /\ rateLimitStore' = r.store
        /\ run' = RunAfter(run, clientIP, now, r.allowed)
        /\ UNCHANGED <<now, served, last, process, pending, admitted>>

NextLimiter ==
    \/ Tick
    \/ \E clientIP \in Clients : LimiterCheck(clientIP)

SpecLimiter == InitLimiter /\ [][NextLimiter]_vars

----------------------------------------------------------------------------
(* Standalone places API (src/index.js): serve({ fetch, error }) *)

\* withCORS(body, init) with an init object; a Response has status 200 when
\* init names none
WithCORS(status, kind, body) ==
    [status |-> status, kind |-> kind, by |-> "handler", body |-> body]

\* await fetch(url); await response.json()
FetchJson(api, params, response) ==
    IF response.transport # "ok"
    THEN [threw |-> TRUE, calls |-> <<Call(api, params)>>]
    ELSE [threw |-> FALSE, value |-> response.data, calls |-> <<Call(api, params)>>]

\* geocode(location): a falsy location and a text of the form lat,lng are
\* returned as they are, without a request
geocode(location, response) ==
    LET got == FetchJson("geocode/json", [address |-> location], response)
        results == JsGet(got.value, "results")
        at == JsGet(JsGet(results.v[1], "geometry"), "location")
    IN  IF ~Truthy(location) \/ CoordinatePattern(location.v)
        THEN [threw |-> FALSE, value |-> location, calls |-> <<>>]
        ELSE IF got.threw THEN [threw |-> TRUE, calls |-> got.calls]
        ELSE IF JsGet(got.value, "status") # JsStr("OK")
                \/ ~(results.t = "array" /\ Len(results.v) > 0)
        THEN [threw |-> TRUE, calls |-> got.calls]
        ELSE [threw |-> FALSE, calls |-> got.calls,
              value |-> JsStr(TemplateText(JsGet(at, "lat")) \o <<",">>
                                \o TemplateText(JsGet(at, "lng")))]

\* formatPlace(place) reads place.geometry.location.lat: it throws without them
FormatPlaceThrows(place) == JsGet(JsGet(place, "geometry"), "location").t # "object"
formatPlace(place) ==
    [id |-> JsGet(place, "place_id"),
     name |-> JsGet(place, "name"),
     address |-> JsGet(place, "formatted_address"),
     rating |-> JsGet(place, "rating"),
     priceLevel |-> JsGet(place, "price_level"),
     types |-> JsGet(place, "types"),
     location |-> JsGet(JsGet(place, "geometry"), "location")]

\* error(error): what serve answers when the fetch handler throws
ErrorHandler(events) ==
    [resp |-> WithCORS(500, "text", "Internal Server Error"), events |-> events]

\* the /api/places/search branch
PlacesSearch(params, env) ==
    LET query == params.query
        radius == JsOr(params.radius, JsStr("50000"))
        geo == IF Truthy(params.location) THEN geocode(params.location, env.geocode)
               ELSE [threw |-> FALSE, value |-> params.location, calls |-> <<>>]
        location == geo.value
        got == FetchJson("place/textsearch/json",
                   [query |-> query,
                    location |-> IF Truthy(params.location) THEN location ELSE JsUndefined,
                    radius |-> IF Truthy(params.location) THEN radius ELSE JsUndefined,
                    type |-> IF Truthy(params.type) THEN params.type ELSE JsUndefined],
                   env.places)
        calls == geo.calls \o got.calls
        status == JsGet(got.value, "status")
        results == JsGet(got.value, "results")
    IN  IF ~Truthy(query)
        THEN [resp |-> WithCORS(400, "json", [error |-> "Query parameter is required"]),
              events |-> <<>>]
        ELSE IF geo.threw THEN ErrorHandler(geo.calls)
        ELSE IF got.threw THEN ErrorHandler(calls)
        ELSE IF status # JsStr("OK") /\ status # JsStr("ZERO_RESULTS")
        THEN [resp |-> WithCORS(500, "json",
                  [error |-> "Google Places API error", status |-> status,
                   message |-> JsOr(JsGet(got.value, "error_message"),
                                    JsStr("Unknown error"))]),
              events |-> calls]
        ELSE IF results.t # "array" \/ \E i \in DOMAIN results.v : FormatPlaceThrows(results.v[i])
        THEN ErrorHandler(calls)
        ELSE [resp |-> WithCORS(200, "json",
                  [results |-> [i \in DOMAIN results.v |-> formatPlace(results.v[i])],
                   status |-> status]),
              events |-> calls]

\* the /api/places/details branch
PlacesDetails(params, env) ==
    LET placeId == params.place_id
        got == FetchJson("place/details/json", [place_id |-> placeId], env.details)
    IN  IF ~Truthy(placeId)
        THEN [resp |-> WithCORS(400, "json", [error |-> "place_id parameter is required"]),
              events |-> <<>>]
        ELSE IF got.threw THEN ErrorHandler(got.calls)
        ELSE IF JsGet(got.value, "status") # JsStr("OK")
        THEN [resp |-> WithCORS(500, "json",
                  [error |-> "Google Places API error",
                   status |-> JsGet(got.value, "status")]),
              events |-> got.calls]
        ELSE [resp |-> WithCORS(200, "json", JsGet(got.value, "result")),
              events |-> got.calls]

\* fetch: async (req) => ...  The health branch calls withCORS("OK") without
\* an init, so that init.headers throws a TypeError and serve answers through
\* error().
PlacesApi(req, env) ==
    IF req.method = "OPTIONS"
    THEN [resp |-> WithCORS(204, "empty", ""), events |-> <<>>]
    ELSE IF req.path = "/health"
    THEN ErrorHandler(<<>>)
    ELSE IF req.path = "/api/places/search" /\ req.method = "GET"
    THEN PlacesSearch(req.params, env)
    ELSE IF req.path = "/api/places/details" /\ req.method = "GET"
    THEN PlacesDetails(req.params, env)
    ELSE [resp |-> WithCORS(404, "text", "Not Found"), events |-> <<>>]

----------------------------------------------------------------------------
(* What callers send and what the provider answers *)

Tea == JsStr(<<"t", "e", "a">>)
Hanoi == JsStr(<<"H", "a", " ", "N", "o", "i">>)
Coordinates == JsStr(<<"4", "0", ".", "7", ",", "-", "7", "4">>)
SpacedCoordinates == JsStr(<<"1", ",", " ", "2">>)
Depot == JsStr(<<"D", "e", "p", "o", "t">>)
Quay == JsStr(<<"Q", "u", "a", "y", "/", "2">>)

Raw(json) == [malformed |-> FALSE, json |-> json]
Malformed == [malformed |-> TRUE]

SearchParameters ==
    {JsNull,
     JsObj(<<>>),
     JsObj([query |-> JsStr(<<>>)]),
     JsObj([query |-> Tea]),
     JsObj([query |-> Tea, location |-> JsStr(<<>>)]),
     JsObj([query |-> Tea, location |-> Hanoi, type |-> JsStr("cafe")]),
     JsObj([query |-> Tea, location |-> Coordinates])}

DirectionsParameters ==
    {JsNull,
     JsObj(<<>>),
     JsObj([origin |-> Depot]),
     JsObj([origin |-> Depot, destination |-> Quay]),
     JsObj([origin |-> Quay, destination |-> Hanoi, mode |-> JsStr("walking")])}

LlmParameters ==
    {JsNull, JsObj(<<>>), JsObj([function_name |-> JsStr("get_weather")]),
     JsObj([function_name |-> JsStr("search_places")]),
     JsObj([function_name |-> JsStr("get_directions")])}
    \cup {JsObj([function_name |-> JsStr("search_places"), parameters |-> q]) :
            q \in {JsNull, JsObj(<<>>), JsObj([query |-> Tea]),
                   JsObj([query |-> Tea, location |-> Coordinates])}}
    \cup {JsObj([function_name |-> JsStr("get_directions"), parameters |-> q]) :
            q \in DirectionsParameters}

Authorizations == {"", "Bearer guess", "Bearer " \o apiSecret}
Headers == [authorization : Authorizations, xff : ForwardedFor]

Failures ==
    {[transport |-> "failed"],
     [transport |-> "ok", ok |-> FALSE,
      data |-> JsObj([status |-> JsStr("UNKNOWN_ERROR")])],
     [transport |-> "ok", ok |-> TRUE,
      data |-> JsObj([status |-> JsStr("REQUEST_DENIED")])]}

Answer(data) == [transport |-> "ok", ok |-> TRUE, data |-> data]

LatLng(lat, lng) == JsObj([lat |-> JsNum(lat), lng |-> JsNum(lng)])

GeocodeResponses ==
    Failures \cup
    {Answer(JsObj([status |-> JsStr("ZERO_RESULTS"), results |-> JsArr(<<>>)])),
     Answer(JsObj([status |-> JsStr("OK"),
                   results |-> JsArr(<<JsObj([geometry |->
                                  JsObj([location |-> LatLng(21, 105)])])>>)]))}

PlaceName(i) == JsStr(<<"C", "a", "f", "e", " ">> \o NatToChars(i))
PlaceId(i) == JsStr(<<"p">> \o NatToChars(i))

\* The i-th record of a provider answer.  The records differ in the fields
\* they carry: all of them; a zero rating and price level and no vicinity;
\* nothing but the place id; no price level and no types.
PlaceRecord(i, kind) ==
    LET shape == (IF kind = "a" THEN i ELSE i + 2) % 4
        at == JsObj([location |-> IF kind = "a" THEN LatLng(i, 10 - 3 * i)
                                  ELSE LatLng(2 * i - 5, i * i)])
    IN  CASE shape = 1 ->
               JsObj([name |-> PlaceName(i), vicinity |-> JsStr(<<"v">> \o NatToChars(i)),
                      formatted_address |-> JsStr(<<"f">> \o NatToChars(i)),
                      rating |-> JsNum(4), price_level |-> JsNum(2),
                      place_id |-> PlaceId(i), geometry |-> at,
                      types |-> JsArr(<<JsStr("cafe")>>)])
          [] shape = 2 ->
               JsObj([name |-> PlaceName(i),
                      formatted_address |-> JsStr(<<"f">> \o NatToChars(i)),
                      rating |-> JsNum(0), price_level |-> JsNum(0),
                      place_id |-> PlaceId(i), geometry |-> at])
          [] shape = 3 -> JsObj([place_id |-> PlaceId(i)])
          [] OTHER ->
               JsObj([name |-> PlaceName(i), vicinity |-> JsStr(<<"v">> \o NatToChars(i)),
                      rating |-> JsNum(5), place_id |-> PlaceId(i), geometry |-> at])

ResultCounts == {1, 6, MaxResults}

PlacesResponses ==
    Failures \cup
    {Answer(JsObj([status |-> JsStr("ZERO_RESULTS"), results |-> JsArr(<<>>)])),
     Answer(JsObj([status |-> JsStr("OK")]))} \cup
    {Answer(JsObj([status |-> JsStr("OK"),
                   results |-> JsArr([i \in 1..n |-> PlaceRecord(i, kind)])])) :
        n \in ResultCounts, kind \in {"a", "b"}}

Leg(k) ==
    JsObj([duration |-> JsObj([text |-> JsStr(NatToChars(k) \o <<" ", "m", "i", "n">>)]),
           distance |-> JsObj([text |-> JsStr(NatToChars(k) \o <<" ", "k", "m">>)]),
           start_address |-> JsStr(<<"s">> \o NatToChars(k)),
           end_address |-> JsStr(<<"e">> \o NatToChars(k))])
Route(k) == JsObj([summary |-> JsStr(<<"r">> \o NatToChars(k)), legs |-> JsArr(<<Leg(k)>>)])

DirectionsResponses ==
    Failures \cup
    {Answer(JsObj([status |-> JsStr("ZERO_RESULTS"), routes |-> JsArr(<<>>)])),
     Answer(JsObj([status |-> JsStr("OK")])),
     Answer(JsObj([status |-> JsStr("OK"), routes |-> JsArr(<<Route(7)>>)])),
     Answer(JsObj([status |-> JsStr("OK"), routes |-> JsArr(<<Route(3), Route(7)>>)]))}

DetailsResponses ==
    Failures \cup
    {Answer(JsObj([status |-> JsStr("NOT_FOUND")])),
     Answer(JsObj([status |-> JsStr("OK"),
                   result |-> JsObj([name |-> PlaceName(1)])]))}

\* query strings of the standalone API (searchParams.get gives null for a
\* parameter that is absent)
SearchQueries ==
    {[query |-> q, location |-> l, radius |-> JsNull, type |-> JsNull, place_id |-> JsNull] :
        q \in {JsNull, Tea},
        l \in {JsNull, Hanoi, Coordinates, SpacedCoordinates,
               JsStr(<<"-", "1", ",", "2", ".">>), JsStr(<<".", "5", ",", "1">>),
               JsStr(<<"1", ",", "2", ",", "3">>)}}
    \cup {[query |-> Tea, location |-> Coordinates, radius |-> JsStr("1000"),
           type |-> JsStr("restaurant"), place_id |-> JsNull],
          [query |-> JsStr(<<>>), location |-> Hanoi, radius |-> JsNull,
           type |-> JsNull, place_id |-> JsNull]}

DetailsQueries ==
    {[query |-> JsNull, location |-> JsNull, radius |-> JsNull, type |-> JsNull,
      place_id |-> i] : i \in {JsNull, PlaceId(1)}}

NoQuery ==
    [query |-> JsNull, location |-> JsNull, radius |-> JsNull, type |-> JsNull,
     place_id |-> JsNull]

Called(events, api) == \E i \in DOMAIN events : events[i].e = api

\* The provider's possible answers to the calls a request makes.  events[g]
\* is the list of calls the request makes when the geocoding call, if made,
\* is answered g and the later calls are not answered; a call that is not
\* made gets NoResponse.  Whether the later calls are made may depend on the
\* geocode answer, so that one is chosen first.
Environments(events) ==
    UNION {
        {[geocode |-> g, places |-> p, directions |-> d, details |-> x] :
            p \in IF Called(events[g], "place/textsearch/json")
                     \/ Called(events[g], "place/nearbysearch/json")
                  THEN PlacesResponses ELSE {NoResponse},
            d \in IF Called(events[g], "directions/json")
                  THEN DirectionsResponses ELSE {NoResponse},
            x \in IF Called(events[g], "place/details/json")
                  THEN DetailsResponses ELSE {NoResponse}} :
        g \in IF Called(events[NoResponse], "geocode/json") THEN GeocodeResponses
              ELSE {NoResponse}}

\* the geocode answers a request is tried against
Probes == GeocodeResponses \cup {NoResponse}

----------------------------------------------------------------------------
(* Spec: the gateway serving requests one after the other *)

\* 99 requests of one client at instant 0: a ledger one short of the limit
NearlyFull == [i \in 1..(maxRequests - 1) |-> 0]

\* The process has either just started or has already admitted 99 requests
\* of a client (SpecLimiter reaches that ledger from the empty Map).
Init ==
    /\ now = 0
    /\ \E known \in SUBSET Clients : rateLimitStore = [c \in known |-> NearlyFull]
    /\ served = 0
    /\ last = NoRequest
    /\ run = NoRun
    /\ process = Running
    /\ pending = EmptyBag
    /\ admitted = <<>>

\* app.fetch answers req; requests are served one after the other
Serve(req) ==
    /\ process.phase = "serving"
    /\ served < MaxServed
    /\ last = NoRequest
    /\ \E env \in Environments([g \in Probes |->
                  App(req, rateLimitStore, now, [NoEnv EXCEPT !.geocode = g]).events]) :
          \E done \in {App(req, rateLimitStore, now, env)} :
              /\ rateLimitStore' = done.store
              /\ last' = [variant |-> "gateway", req |-> req, env |-> env,
                          resp |-> done.resp, events |-> done.events]
    /\ served' = served + 1
    /\ UNCHANGED <<now, run, process, pending, admitted>>

NoBody == [malformed |-> TRUE]

\* the requests callers send to the gateway
HealthRequests ==
    {[method |-> "GET", path |-> "/health", headers |-> h, body |-> NoBody] :
        h \in Headers}
SearchPlacesRequests ==
    {[method |-> "POST", path |-> "/search-places", headers |-> h, body |-> b] :
        h \in Headers, b \in {Malformed} \cup {Raw(q) : q \in SearchParameters}}
DirectionsRequests ==
    {[method |-> "POST", path |-> "/directions", headers |-> h, body |-> b] :
        h \in Headers, b \in {Malformed} \cup {Raw(q) : q \in DirectionsParameters}}
LlmFunctionRequests ==
    {[method |-> "POST", path |-> "/llm-function", headers |-> h, body |-> b] :
        h \in Headers, b \in {Malformed} \cup {Raw(q) : q \in LlmParameters}}

GetHealth == \E req \in HealthRequests : Serve(req)

PostSearchPlaces == \E req \in SearchPlacesRequests : Serve(req)

PostDirections == \E req \in DirectionsRequests : Serve(req)

PostLlmFunction == \E req \in LlmFunctionRequests : Serve(req)

\* the response has gone out; the next request can come in
Deliver ==
    /\ last # NoRequest
    /\ last' = NoRequest
    /\ UNCHANGED <<now, rateLimitStore, served, run, process, pending, admitted>>

\* the standalone places API answers req
ServePlacesApi(req) ==
    /\ served < MaxServed
    /\ last = NoRequest
    /\ \E env \in Environments([g \in Probes |->
                  PlacesApi(req, [NoEnv EXCEPT !.geocode = g]).events]) :
          \E done \in {PlacesApi(req, env)} :
              last' = [variant |-> "places-api", req |-> req, env |-> env,
                       resp |-> done.resp, events |-> done.events]
    /\ served' = served + 1
    /\ UNCHANGED <<now, rateLimitStore, run, process, pending, admitted>>

\* the requests callers send to the standalone places API
ApiHealthRequests ==
    {[method |-> m, path |-> "/health", params |-> NoQuery] : m \in {"GET", "OPTIONS"}}
ApiSearchRequests ==
    {[method |-> "GET", path |-> "/api/places/search", params |-> q] : q \in SearchQueries}
ApiDetailsRequests ==
    {[method |-> "GET", path |-> "/api/places/details", params |-> q] :
        q \in DetailsQueries}
ApiOtherRequests ==
    {[method |-> m, path |-> "/nonexistent", params |-> NoQuery] : m \in {"GET", "POST"}}

ApiHealth == \E req \in ApiHealthRequests : ServePlacesApi(req)

ApiPlacesSearch == \E req \in ApiSearchRequests : ServePlacesApi(req)

ApiPlacesDetails == \E req \in ApiDetailsRequests : ServePlacesApi(req)

ApiOtherPath == \E req \in ApiOtherRequests : ServePlacesApi(req)

Next ==
    \/ Tick
    \/ Deliver
    \/ GetHealth
    \/ PostSearchPlaces
    \/ PostDirections
    \/ PostLlmFunction
    \/ ApiHealth
    \/ ApiPlacesSearch
    \/ ApiPlacesDetails
    \/ ApiOtherPath

Spec == Init /\ [][Next]_vars

----------------------------------------------------------------------------
(* SpecStartup: the gateway from the launch of its process on *)

InitStartup ==
    /\ now = 0
    /\ rateLimitStore = <<>>
    /\ served = 0
    /\ last = NoRequest
    /\ run = NoRun
    /\ \E env \in ProcessEnvs :
          process = [phase |-> "starting", exitCode |-> 0, env |-> env]
    /\ pending = EmptyBag
    /\ admitted = <<>>

NextStartup ==
    \/ Startup
    \/ Tick
    \/ Deliver
    \/ GetHealth
    \/ PostSearchPlaces
    \/ PostDirections
    \/ PostLlmFunction

SpecStartup == InitStartup /\ [][NextStartup]_vars

----------------------------------------------------------------------------
(* SpecConcurrent: requests to /search-places and /directions in flight    *)
(* together.  The event loop runs one request at a time from one await to  *)
(* its next; a step of the model is one such stretch of code.              *)

\* the upstream calls a request still has to make once its body is parsed:
\* none (it is answered 400 or 500), one (a search or directions), two
\* (geocoding, then a search)
UpstreamCalls == 0..2

\* what a flight is answered with: the 401 of bearerAuth, the 429 of the
\* limiter, or the route's own answer (200, 400, 404 or 500), which "route"
\* stands for
Flight(headers, pc, calls, status) ==
    [headers |-> headers, pc |-> pc, calls |-> calls, status |-> status]

\* pending once the flight f has run to its next await, where it is g
Resume(f, g) == (pending (-) SetToBag({f})) (+) SetToBag({g})

\* app.fetch takes a request in; bearerAuth is entered
Arrive ==
    /\ process.phase = "serving"
    /\ served + BagCardinality(pending) < MaxArrivals
    /\ BagCardinality(pending) < MaxInFlight
    /\ \E headers \in {h \in Headers : h.authorization # ""} :
          pending' = pending (+) SetToBag({Flight(headers, "auth", 0, "")})
    /\ UNCHANGED <<now, rateLimitStore, served, last, run, process, admitted>>

\* bearerAuth decides, and on success customRateLimiter runs from its first
\* line to `await next()` and the route up to `await c.req.json()`: the code
\* holds no await between rateLimitStore.get and rateLimitStore.set.
Admit(f) ==
    /\ f.pc = "auth"
    /\ IF ~bearerAuth(f.headers)
       THEN /\ pending' = Resume(f, Flight(f.headers, "respond", 0, "401"))
            /\ UNCHANGED <<rateLimitStore, admitted>>
       ELSE \E limit \in {customRateLimiter(rateLimitStore, ClientIP(f.headers), now)} :
               /\ rateLimitStore' = limit.store
               /\ IF limit.allowed
                  THEN /\ pending' = Resume(f, Flight(f.headers, "json", 0, ""))
                       /\ admitted' = [admitted EXCEPT
                                          ![ClientIP(f.headers)] = Append(@, now)]
                  ELSE /\ pending' = Resume(f, Flight(f.headers, "respond", 0, "429"))
                       /\ UNCHANGED admitted
    /\ UNCHANGED <<now, served, last, run, process>>

\* c.req.json() has settled: the route answers at once (400 or 500), or
\* sends its first upstream call and waits for it
Parsed(f) ==
    /\ f.pc = "json"
    /\ \E calls \in UpstreamCalls :
          IF calls = 0
          THEN pending' = Resume(f, Flight(f.headers, "respond", 0, "route"))
          ELSE pending' = Resume(f, Flight(f.headers, "upstream", calls, ""))
    /\ UNCHANGED <<now, rateLimitStore, served, last, run, process, admitted>>

\* an upstream call has settled: the route sends its next call, or answers
\* (500 when the call failed, else 200 or 404 after its last call)
Answered(f) ==
    /\ f.pc = "upstream"
    /\ \/ /\ f.calls > 1
          /\ pending' = Resume(f, Flight(f.headers, "upstream", f.calls - 1, ""))
       \/ pending' = Resume(f, Flight(f.headers, "respond", 0, "route"))
    /\ UNCHANGED <<now, rateLimitStore, served, last, run, process, admitted>>

\* the response has passed back through the middleware and leaves the server
Respond(f) ==
    /\ f.pc = "respond"
    /\ pending' = pending (-) SetToBag({f})
    /\ served' = served + 1
    /\ UNCHANGED <<now, rateLimitStore, last, run, process, admitted>>

InitConcurrent ==
    /\ now = 0
    /\ \E known \in SUBSET Clients : rateLimitStore = [c \in known |-> NearlyFull]
    /\ served = 0
    /\ last = NoRequest
    /\ run = NoRun
    /\ process = Running
    /\ pending = EmptyBag
    /\ admitted = [c \in Clients |-> StoreGet(rateLimitStore, c)]

NextConcurrent ==
    \/ Tick
    \/ Arrive
    \/ \E f \in BagToSet(pending) : Admit(f)
    \/ \E f \in BagToSet(pending) : Parsed(f)
    \/ \E f \in BagToSet(pending) : Answered(f)
    \/ \E f \in BagToSet(pending) : Respond(f)

SpecConcurrent == InitConcurrent /\ [][NextConcurrent]_vars

----------------------------------------------------------------------------
(* Vocabulary of the claims *)

ProtectedPaths == {"/search-places", "/directions", "/llm-function"}

\* the request being answered went to the gateway, to one of the given paths
GatewayRequest(paths) ==
    last.variant = "gateway" /\ last.req.method = "POST" /\ last.req.path \in paths

CountCalls(events, api) == Cardinality({i \in DOMAIN events : events[i].e = api})

UpstreamApis ==
    {"geocode/json", "place/textsearch/json", "place/nearbysearch/json",
     "directions/json", "place/details/json"}

\* the body was read, or a call went upstream
Worked(events) == \E i \in DOMAIN events : events[i].e \in UpstreamApis \cup {"c.req.json"}

\* the upstream answer is a failure: transport, HTTP status or provider status
Failed(response) ==
    \/ response.transport = "failed"
    \/ response.transport = "ok" /\ ~response.ok
    \/ /\ response.transport = "ok" /\ response.ok
       /\ JsGet(response.data, "status") \notin {JsStr("OK"), JsStr("ZERO_RESULTS")}

----------------------------------------------------------------------------
(* C1: in a window of checks of one client that starts fresh (no earlier   *)
(* check of that client less than windowMs back) and whose checks all lie  *)
(* less than windowMs after its first, the k-th check is allowed exactly   *)
(* when k <= maxRequests: the first 100 are allowed, the 101st is denied.  *)
C1_FirstMaxAllowedThenDenied ==
    (run.active /\ run.fresh) => (run.allowed <=> run.count <= maxRequests)

\* The 101st check of a fresh window has been made (and more than one
\* instant was used inside the window).
C1_Witness ==
    /\ run.active /\ run.fresh
    /\ run.count = maxRequests + 1
    /\ run.lastCheck > run.start

(* C2: a POST to /search-places, /directions or /llm-function that carries *)
(* no bearer token is answered 401, whatever its body.                     *)
C2_NoTokenIs401 ==
    (GatewayRequest(ProtectedPaths) /\ last.req.headers.authorization = "")
        => last.resp.status = 401

(* C3: on /search-places, /directions and /llm-function a request answered *)
(* 401 leaves the ledger as it was and has neither read its body nor       *)
(* called upstream; a request answered 429 has neither read its body nor   *)
(* called upstream.                                                        *)
C3_AuthThenLimitThenLogic ==
    [][(last = NoRequest /\ last'.variant = "gateway"
            /\ last'.req.method = "POST" /\ last'.req.path \in ProtectedPaths)
        => /\ last'.resp.status = 401
                => rateLimitStore' = rateLimitStore /\ ~Worked(last'.events)
           /\ last'.resp.status = 429 => ~Worked(last'.events)]_vars

\* the direct request C4 compares with: same headers, body = parameters
DirectRequest(req) ==
    [method |-> "POST",
     path |-> IF JsGet(req.body.json, "function_name") = JsStr("search_places")
              THEN "/search-places" ELSE "/directions",
     headers |-> req.headers,
     body |-> Raw(JsGet(req.body.json, "parameters"))]

\* an /llm-function request that names one of the two functions and carries
\* parameters
NamesFunction(req) ==
    /\ req.method = "POST" /\ req.path = "/llm-function"
    /\ ~req.body.malformed
    /\ JsGet(req.body.json, "function_name")
          \in {JsStr("search_places"), JsStr("get_directions")}
    /\ JsGet(req.body.json, "parameters") # JsUndefined

ZeroResults ==
    /\ CountCalls(last.events, "place/textsearch/json")
          + CountCalls(last.events, "place/nearbysearch/json") > 0
    /\ ~Failed(last.env.places)
    /\ LET results == JsGet(last.env.places.data, "results")
       IN  ~Truthy(results) \/ Len(results.v) = 0

\* the text x is part of the message
Names(message, x) == Len(x.v) = 0 \/ \E i \in DOMAIN message : message[i] = x

(* C5: an authenticated, admitted POST /search-places with a non-empty     *)
(* query whose upstream search returns no record is answered 404 with a    *)
(* message naming the query, and the location when the body carries one;   *)
(* normalisation and the centre computation have not run.                  *)
C5_ZeroResultsIs404 ==
    (GatewayRequest({"/search-places"}) /\ bearerAuth(last.req.headers)
        /\ last.resp.status # 429 /\ ZeroResults)
    => /\ last.resp.status = 404
       /\ Names(last.resp.body.message, JsGet(last.req.body.json, "query"))
       /\ JsGet(last.req.body.json, "location") # JsUndefined
            => Names(last.resp.body.message, JsGet(last.req.body.json, "location"))
       /\ CountCalls(last.events, "processedPlaces") = 0

\* a search with a location has come back empty and been answered 404
C5_Witness ==
    /\ GatewayRequest({"/search-places"}) /\ ZeroResults
    /\ Truthy(JsGet(last.req.body.json, "location"))
    /\ last.resp.status = 404
    /\ CountCalls(last.events, "geocode/json") = 1

\* the records the upstream search returned for the request, and all of them
\* in the shape of the elements of places
Returned == JsGet(last.env.places.data, "results").v
ReturnedPlaces == [i \in 1..Len(Returned) |-> NormalizePlace(Returned[i])]

(* C6: for a search answered 200, center_lat and center_lng are the means  *)
(* of the coordinates of all the records upstream returned (a record       *)
(* without coordinates counting as the default location, as in places).    *)
C6_CenterIsMeanOfAll ==
    (GatewayRequest({"/search-places"}) /\ last.resp.status = 200)
    => /\ QuotientIs(last.resp.body.center_lat,
                     SumCoordinate(ReturnedPlaces, "lat"), Len(Returned))
       /\ QuotientIs(last.resp.body.center_lng,
                     SumCoordinate(ReturnedPlaces, "lng"), Len(Returned))

\* the location text of a search that resolves one, in either server
SearchLocation ==
    IF last.variant = "gateway" THEN JsGet(last.req.body.json, "location")
    ELSE last.req.params.location

ResolvesLocation ==
    \/ /\ GatewayRequest({"/search-places"}) /\ ~last.req.body.malformed
       /\ bearerAuth(last.req.headers) /\ last.resp.status \notin {400, 429}
    \/ /\ last.variant = "places-api" /\ last.req.method = "GET"
       /\ last.req.path = "/api/places/search" /\ last.resp.status # 400

(* C7: a search whose location text has the form lat,lng sends no geocode  *)
(* request, in POST /search-places as in GET /api/places/search, and the   *)
(* text search of the latter is handed the text as it came.                *)
C7_CoordinatesNotGeocoded ==
    (ResolvesLocation /\ SearchLocation.t = "string" /\ CoordinatePattern(SearchLocation.v))
    => /\ CountCalls(last.events, "geocode/json") = 0
       /\ \A i \in DOMAIN last.events :
            (last.variant = "places-api" /\ last.events[i].e = "place/textsearch/json")
                => last.events[i].params.location = SearchLocation

PlacesCalls(events) ==
    CountCalls(events, "place/textsearch/json") + CountCalls(events, "place/nearbysearch/json")

(* C8: one gateway request sends at most one geocode, one places and one   *)
(* directions request; when the places or the directions request fails     *)
(* the answer is 500 and the failed request is the last thing done.        *)
C8_NoRetry ==
    last.variant = "gateway"
    => /\ CountCalls(last.events, "geocode/json") <= 1
       /\ PlacesCalls(last.events) <= 1
       /\ CountCalls(last.events, "directions/json") <= 1
       /\ (PlacesCalls(last.events) > 0 /\ Failed(last.env.places))
            => /\ last.resp.status = 500
               /\ last.events[Len(last.events)].e
                    \in {"place/textsearch/json", "place/nearbysearch/json"}
       /\ (CountCalls(last.events, "directions/json") > 0 /\ Failed(last.env.directions))
            => /\ last.resp.status = 500
               /\ last.events[Len(last.events)].e = "directions/json"

\* a search has geocoded its location and its places request has failed
C8_Witness ==
    /\ last.variant = "gateway"
    /\ CountCalls(last.events, "geocode/json") = 1
    /\ PlacesCalls(last.events) = 1
    /\ Failed(last.env.places)
    /\ last.resp.status = 500

(* C9: every response with a status of 400 or more that the code of either *)
(* server builds has a JSON body with an error key.                        *)
C9_FailuresAreJsonWithError ==
    (last.variant # "none" /\ last.resp.by = "handler" /\ last.resp.status >= 400)
    => last.resp.kind = "json" /\ "error" \in DOMAIN last.resp.body

(* C10: an authenticated, admitted POST to /search-places, /directions or  *)
(* /llm-function whose body is not a JSON object is answered 400.          *)
C10_MalformedIs400 ==
    (GatewayRequest(ProtectedPaths) /\ bearerAuth(last.req.headers)
        /\ last.resp.status # 429
        /\ (last.req.body.malformed \/ last.req.body.json.t # "object"))
    => last.resp.status = 400

\* the input is absent, null or the empty text
Lacks(x) == x.t \in {"undefined", "null"} \/ (x.t = "string" /\ Len(x.v) = 0)

\* the gateway handler named by path has the request's body, a JSON object,
\* in hand: the request passed bearerAuth and the limiter
Handles(path) ==
    /\ GatewayRequest({path}) /\ bearerAuth(last.req.headers)
    /\ last.resp.status # 429
    /\ ~last.req.body.malformed /\ last.req.body.json.t = "object"

ApiRequest(path) ==
    last.variant = "places-api" /\ last.req.method = "GET" /\ last.req.path = path

\* the request lacks an input its route requires
LacksRequired ==
    \/ Handles("/search-places") /\ Lacks(JsGet(last.req.body.json, "query"))
    \/ /\ Handles("/directions")
       /\ \/ Lacks(JsGet(last.req.body.json, "origin"))
          \/ Lacks(JsGet(last.req.body.json, "destination"))
    \/ ApiRequest("/api/places/search") /\ Lacks(last.req.params.query)
    \/ ApiRequest("/api/places/details") /\ Lacks(last.req.params.place_id)

(* C11: a request that lacks a required input (query of a search in either *)
(* server, origin or destination of /directions, place_id of the details    *)
(* route) is answered 400 with a JSON error, "Query parameter is required"  *)
(* resp. "place_id parameter is required" where the claim names it, and    *)
(* sends nothing upstream.                                                  *)
C11_MissingInputIs400 ==
    LacksRequired
    => /\ last.resp.status = 400
       /\ last.resp.kind = "json"
       /\ (last.req.path \in {"/search-places", "/api/places/search"})
            => last.resp.body.error = "Query parameter is required"
       /\ last.req.path = "/api/places/details"
            => last.resp.body.error = "place_id parameter is required"
       /\ ~\E i \in DOMAIN last.events : last.events[i].e \in UpstreamApis

\* /directions has refused a body that names an origin and no destination
C11_Witness ==
    /\ Handles("/directions")
    /\ ~Lacks(JsGet(last.req.body.json, "origin"))
    /\ Lacks(JsGet(last.req.body.json, "destination"))
    /\ last.resp.status = 400

(* C12: GET /health of either server is answered 200, with the body "OK"  *)
(* in the standalone places API, whatever the headers and the ledger; it   *)
(* calls nothing upstream and leaves the ledger as it was.                 *)
C12_HealthIs200 ==
    [][(last = NoRequest /\ last'.variant # "none"
            /\ last'.req.method = "GET" /\ last'.req.path = "/health")
        => /\ last'.resp.status = 200
           /\ last'.variant = "places-api"
                => last'.resp.kind = "text" /\ last'.resp.body = "OK"
           /\ ~\E i \in DOMAIN last'.events : last'.events[i].e \in UpstreamApis
           /\ rateLimitStore' = rateLimitStore]_vars

\* the paths the standalone places API has a branch for
ApiRoutes == {"/health", "/openapi.json", "/api/places/search", "/api/places/details"}

(* C13: the standalone places API answers a request to a path that matches *)
(* no route with status 500.                                               *)
C13_UnknownPathIs500 ==
    (last.variant = "places-api" /\ last.req.method # "OPTIONS"
        /\ last.req.path \notin ApiRoutes)
    => last.resp.status = 500

Follows(text, a, b) ==
    \E i \in 1..Len(text), j \in 1..Len(text) :
        /\ i + Len(a) <= j /\ j + Len(b) - 1 <= Len(text)
        /\ SubSeq(text, i, i + Len(a) - 1) = a
        /\ SubSeq(text, j, j + Len(b) - 1) = b

\* the routes of the upstream answer to the directions call
UpstreamRoutes ==
    IF Failed(last.env.directions) THEN <<>>
    ELSE LET routes == JsGet(last.env.directions.data, "routes")
         IN  IF routes.t = "array" THEN routes.v ELSE <<>>

\* an authenticated, admitted POST /directions carrying origin and destination
DirectionsAsked ==
    /\ Handles("/directions")
    /\ ~Lacks(JsGet(last.req.body.json, "origin"))
    /\ ~Lacks(JsGet(last.req.body.json, "destination"))

C15_WitnessNoRoute ==
    DirectionsAsked /\ ~Failed(last.env.directions) /\ Len(UpstreamRoutes) = 0
        /\ last.resp.status = 404

\* the geocoding call went out and gave no point: it failed or found nothing
GeocodeGaveNothing ==
    /\ CountCalls(last.events, "geocode/json") = 1
    /\ \/ Failed(last.env.geocode)
       \/ LET results == JsGet(last.env.geocode.data, "results")
          IN  results.t # "array" \/ Len(results.v) = 0

\* the records of the upstream answer to the places call
UpstreamPlaces ==
    IF Failed(last.env.places) THEN <<>>
    ELSE LET results == JsGet(last.env.places.data, "results")
         IN  IF results.t = "array" THEN results.v ELSE <<>>

(* C16: when the geocoding call of an authenticated, admitted POST          *)
(* /search-places fails or finds nothing, the request goes on: one text     *)
(* search on the query alone follows, no nearby search, and the status is   *)
(* that search's outcome: 500 when it fails, 404 when it finds nothing,     *)
(* 200 when it finds a record.                                              *)
C16_GeocodeFailureFallsBack ==
    (Handles("/search-places") /\ GeocodeGaveNothing) =>
        /\ CountCalls(last.events, "place/nearbysearch/json") = 0
        /\ CountCalls(last.events, "place/textsearch/json") = 1
        /\ \A i \in DOMAIN last.events :
              last.events[i].e = "place/textsearch/json"
                 => last.events[i].params = [query |-> JsGet(last.req.body.json, "query")]
        /\ last.resp.status =
              IF Failed(last.env.places) THEN 500
              ELSE IF Len(UpstreamPlaces) = 0 THEN 404 ELSE 200

\* geocoding failed and the text search that followed found records
C16_Witness ==
    /\ Handles("/search-places") /\ GeocodeGaveNothing
    /\ Failed(last.env.geocode)
    /\ CountCalls(last.events, "place/textsearch/json") = 1
    /\ Len(UpstreamPlaces) > 0
    /\ last.resp.status = 200

\* the step is a check of the limiter (the observer counts every check)
IsCheck == run' # run

(* C17: right after a check of a client at time now, allowed or denied, the *)
(* client's stored ledger holds only timestamps of the trailing window:     *)
(* none is windowMs or more old, none lies after now.                       *)
C17_LedgerHoldsOnlyWindow ==
    [][IsCheck =>
          LET ledger == StoreGet(rateLimitStore', run'.client)
          IN  \A i \in DOMAIN ledger :
                 ledger[i] <= now' /\ now' - ledger[i] < windowMs]_vars

\* a check at windowMs that follows checks at 0 and at windowMs - 1 has left
\* the ledger without the timestamp 0
C17_Witness ==
    /\ now = windowMs
    /\ run.active /\ ~run.fresh /\ run.start = windowMs /\ run.lastCheck = windowMs
    /\ StoreGet(rateLimitStore, run.client)[1] = windowMs - 1

\* the timestamps of the ledger that lie in the closed interval
\* [t - windowMs, t]
InClosedWindow(ledger, t) ==
    {i \in DOMAIN ledger : t - windowMs <= ledger[i] /\ ledger[i] <= t}

(* C18: the limiter counts the timestamps of the closed interval            *)
(* [now - windowMs, now]: a check that finds maxRequests or more of them in *)
(* the client's ledger, one exactly windowMs old among them, is denied.     *)
C18_ClosedWindowCounted ==
    [][IsCheck =>
          LET ledger == StoreGet(rateLimitStore, run'.client)
          IN  (/\ Cardinality(InClosedWindow(ledger, now)) >= maxRequests
               /\ \E i \in DOMAIN ledger : ledger[i] = now - windowMs)
                  => ~run'.allowed]_vars

\* the gateway answers a request in this step
Answers == last = NoRequest /\ last'.variant = "gateway"

\* the ledger without its timestamps that are windowMs old or older
Kept(ledger, t) == SelectSeq(ledger, LAMBDA time : t - time < windowMs)

(* C19: a request the limiter allows leaves its client's ledger as the old  *)
(* one without the timestamps windowMs old or older, followed by now, once; *)
(* a request answered 429 leaves the whole store as it was; no request      *)
(* changes the ledger of a client other than its own; a request changes the *)
(* store in no other way, and an authenticated request to /search-places    *)
(* or /directions that is not answered 429 has been recorded.               *)
C19_CheckFrame ==
    [][Answers =>
          LET c == ClientIP(last'.req.headers)
              recorded == Append(Kept(StoreGet(rateLimitStore, c), now), now)
          IN  /\ \A k \in (DOMAIN rateLimitStore \cup DOMAIN rateLimitStore') \ {c} :
                    /\ k \in DOMAIN rateLimitStore /\ k \in DOMAIN rateLimitStore'
                    /\ rateLimitStore'[k] = rateLimitStore[k]
              /\ last'.resp.status = 429 => rateLimitStore' = rateLimitStore
              /\ \/ rateLimitStore' = rateLimitStore
                 \/ c \in DOMAIN rateLimitStore' /\ rateLimitStore'[c] = recorded
              /\ (/\ last'.req.method = "POST"
                  /\ last'.req.path \in {"/search-places", "/directions"}
                  /\ bearerAuth(last'.req.headers)
                  /\ last'.resp.status # 429)
                    => c \in DOMAIN rateLimitStore' /\ rateLimitStore'[c] = recorded]_vars

\* a client's request was allowed a window after its 99 earlier ones, which
\* are gone from its ledger, while the other client's 99 are all still there
C19_Witness ==
    /\ GatewayRequest({"/search-places", "/directions"})
    /\ bearerAuth(last.req.headers) /\ last.resp.status # 429
    /\ now >= windowMs
    /\ StoreGet(rateLimitStore, ClientIP(last.req.headers)) = <<now>>
    /\ \E k \in DOMAIN rateLimitStore :
          k # ClientIP(last.req.headers) /\ rateLimitStore[k] = NearlyFull

\* a client's hundred-and-first request was answered 429
C19_WitnessDenied ==
    /\ GatewayRequest({"/search-places", "/directions"})
    /\ last.resp.status = 429
    /\ Len(StoreGet(rateLimitStore, ClientIP(last.req.headers))) = maxRequests

\* the requests of client c allowed in the window of length windowMs that
\* ends at the instant t
AdmittedIn(c, t) ==
    {i \in DOMAIN admitted[c] : t - admitted[c][i] < windowMs /\ admitted[c][i] <= t}

\* the flights of client c that the limiter has allowed and that are still
\* suspended in their route
Suspended(c) ==
    {f \in BagToSet(pending) :
        ClientIP(f.headers) = c /\ f.pc \in {"json", "upstream"}}

(* C20: with requests in flight together and resumed in any order, no       *)
(* window of length windowMs holds more than maxRequests allowed requests   *)
(* of one client, and the client's ledger holds every timestamp allowed     *)
(* less than windowMs ago, as often as it was allowed: none is lost or      *)
(* overwritten.                                                             *)
C20_LimiterAtomic ==
    \A c \in Clients :
        /\ \A t \in Instants : Cardinality(AdmittedIn(c, t)) <= maxRequests
        /\ Kept(StoreGet(rateLimitStore, c), now) = Kept(admitted[c], now)

\* two requests of one client are in flight together: the hundredth, allowed
\* and suspended in its route, and another one the limiter has denied
C20_Witness ==
    \E c \in Clients :
        /\ Cardinality(AdmittedIn(c, now)) = maxRequests
        /\ Suspended(c) # {}
        /\ \E f \in BagToSet(pending) :
              ClientIP(f.headers) = c /\ f.pc = "respond" /\ f.status = "429"

\* the field of an upstream record as places carries it: the value, or the
\* empty text when the record has none
TextOf(record, field) ==
    IF JsGet(record, field).t = "string" THEN JsGet(record, field) ELSE JsStr(<<>>)

(* C21: a search answered 200 for n upstream records carries in places the  *)
(* first min(10, n) records in upstream order, in place_embeds one          *)
(* descriptor for each of the first min(5, n) of those in the same order,   *)
(* and n itself in total_results.                                           *)
C21_TopTenTopFive ==
    (GatewayRequest({"/search-places"}) /\ last.resp.status = 200) =>
        LET body == last.resp.body
            n == Len(Returned)
        IN  /\ Len(body.places) = (IF n < 10 THEN n ELSE 10)
            /\ \A i \in DOMAIN body.places :
                  /\ body.places[i].place_id = TextOf(Returned[i], "place_id")
                  /\ body.places[i].name = TextOf(Returned[i], "name")
            /\ Len(body.place_embeds) = (IF n < 5 THEN n ELSE 5)
            /\ \A i \in DOMAIN body.place_embeds :
                  /\ body.place_embeds[i].place_id = body.places[i].place_id
                  /\ body.place_embeds[i].name = body.places[i].name
            /\ body.total_results = n

\* more records came back than places holds
C21_Witness ==
    /\ GatewayRequest({"/search-places"}) /\ last.resp.status = 200
    /\ Len(Returned) > 10
    /\ Len(last.resp.body.places) = 10
    /\ Len(last.resp.body.place_embeds) = 5

\* in this step the limiter lets the flight f pass, or answers it 429
Allows(f) ==
    f.pc = "auth" /\ pending' = Resume(f, Flight(f.headers, "json", 0, ""))
Denies(f) ==
    f.pc = "auth" /\ pending' = Resume(f, Flight(f.headers, "respond", 0, "429"))

(* C22: a denied request is not recorded, in the ledger or anywhere, and a  *)
(* check lets a client pass exactly when fewer than maxRequests of its      *)
(* allowed requests are less than windowMs old: a client that was denied    *)
(* passes at the first check after its oldest counted request has left the  *)
(* window, however many denied requests it made in between.                 *)
C22_DeniedClientRecovers ==
    [][\A f \in BagToSet(pending) :
          /\ Denies(f) => rateLimitStore' = rateLimitStore /\ admitted' = admitted
          /\ (Allows(f) \/ Denies(f)) =>
                (Allows(f) <=>
                    Cardinality(AdmittedIn(ClientIP(f.headers), now)) < maxRequests)]_vars

\* a client with 100 allowed requests at instant 0 and a denied one still on
\* its way out has been let pass again a window later
C22_Witness ==
    \E c \in Clients :
        /\ now >= windowMs
        /\ Len(admitted[c]) = maxRequests + 1
        /\ admitted[c][maxRequests] = 0 /\ admitted[c][maxRequests + 1] = now
        /\ StoreGet(rateLimitStore, c) = <<now>>
        /\ \E f \in BagToSet(pending) :
              ClientIP(f.headers) = c /\ f.pc = "respond" /\ f.status = "429"

\* the slots of the client's quota in use at instant t: the timestamps of
\* its ledger less than windowMs old
SlotsUsed(store, c, t) == Len(Kept(StoreGet(store, c), t))

(* C23: an authenticated request to /search-places or /directions that      *)
(* finds a free slot takes exactly one, whether it is then answered 200,    *)
(* 400, 404 or 500; one that finds all maxRequests slots in use is answered *)
(* 429 and takes none.                                                      *)
C23_EveryOutcomeTakesASlot ==
    [][(/\ Answers
        /\ last'.req.method = "POST"
        /\ last'.req.path \in {"/search-places", "/directions"}
        /\ bearerAuth(last'.req.headers))
          => LET c == ClientIP(last'.req.headers)
                 before == SlotsUsed(rateLimitStore, c, now)
                 after == SlotsUsed(rateLimitStore', c, now)
             IN  IF before >= maxRequests
                 THEN last'.resp.status = 429 /\ after = before
                 ELSE /\ last'.resp.status \in {200, 400, 404, 500}
                      /\ after = before + 1]_vars

\* a request answered 400 has taken the hundredth slot of its client
C23_Witness ==
    /\ GatewayRequest({"/search-places", "/directions"})
    /\ bearerAuth(last.req.headers)
    /\ last.resp.status = 400
    /\ SlotsUsed(rateLimitStore, ClientIP(last.req.headers), now) = maxRequests

\* after 100 slots were taken, the last by a request answered 400 or 500
\* without any upstream call, the next request is answered 429
C23_WitnessDenied ==
    /\ GatewayRequest({"/search-places", "/directions"})
    /\ last.resp.status = 429 /\ served = 2
    /\ SlotsUsed(rateLimitStore, ClientIP(last.req.headers), now) = maxRequests

(* C24: whatever checks were made, at whatever times, no client's stored    *)
(* ledger holds more than maxRequests timestamps.                           *)
C24_LedgerAtMostMax ==
    \A c \in DOMAIN rateLimitStore : Len(rateLimitStore[c]) <= maxRequests

\* a client's ledger is full, its latest check was denied, and time has moved
\* on since the ledger began
C24_Witness ==
    /\ run.active /\ ~run.allowed
    /\ Len(StoreGet(rateLimitStore, run.client)) = maxRequests
    /\ StoreGet(rateLimitStore, run.client)[1] < now

\* the field of an upstream record as a returned place should carry it: the
\* value when the record has one, null when it has none
Supplied(record, field) ==
    IF JsGet(record, field) \in {JsUndefined, JsNull} THEN JsNull
    ELSE JsGet(record, field)

(* C25: in every place of a search answered 200, rating and price_level     *)
(* are the upstream record's values when the record has them, the value 0   *)
(* included, and null only when the record lacks them.                      *)
C25_SuppliedValuesKept ==
    (GatewayRequest({"/search-places"}) /\ last.resp.status = 200) =>
        \A i \in DOMAIN last.resp.body.places :
            /\ last.resp.body.places[i].rating = Supplied(Returned[i], "rating")
            /\ last.resp.body.places[i].price_level = Supplied(Returned[i], "price_level")

====
